---- MODULE Spec2Model ----
(***************************************************************************)
(* Model of the per-connection voice-chat pipeline of server.py            *)
(* (voice_chat), its persistence helpers (create_session, save_to_db,      *)
(* end_session) and the transcription port (app/stt.py).                   *)
(*                                                                         *)
(* One connection is modelled.  The handler is a coroutine; pc names the   *)
(* await it is suspended at.  Background save_to_db tasks and the client   *)
(* run concurrently with it.                                               *)
(*                                                                         *)
(* websocket.send_json raises once the transport is closed, and            *)
(* iter_bytes ends the loop when the peer has disconnected.                *)
(*                                                                         *)
(* Audio is modelled run-length encoded: a frame is `len` copies of one    *)
(* byte value, so that byte counts keep the real thresholds (8000 and      *)
(* 500000) while the state stays small.  Text is a sequence of characters. *)
(***************************************************************************)
EXTENDS Integers, Sequences, FiniteSets, TLC

(* ---------------------------- bounds ----------------------------------- *)
MaxFrames == 3        \* inbound frames read on the connection
MaxTurns == 2         \* flushes (turns) on the connection

(* ---------------------- program constants ------------------------------ *)
min_audio_size == 8000
max_buffer_size == 500000
None == 0             \* db_session = None
SessionId == 1        \* primary key given to the row create_session inserts

(* ---------------------------- inputs ----------------------------------- *)
Marker == [byte |-> "", len |-> 0]      \* b'' : the end-of-utterance marker

Frames ==
  { Marker,
    [byte |-> "a", len |-> 4000],
    [byte |-> "c", len |-> 250000],
    [byte |-> "d", len |-> 500001] }

\* what the upstream recognizer answers (before .strip())
Responses ==
  { <<" ">>, <<"h", " ", "i", " ">> }

\* outcome of the upstream call inside transcribe_audio_data
UpstreamOutcomes ==
  { [raised |-> FALSE, text |-> r] : r \in Responses }
    \cup { [raised |-> TRUE, text |-> <<>>] }

\* the text deltas a response stream may yield, in order
Streams == { <<<<"y", "z">>>>, << <<"x">>, <<"y", "z">> >> }

VARIABLES
  pc,                    \* await the handler is suspended at
  client,                \* transport: "connected" | "disconnected"
  db_session,            \* None or the id of the session row
  audio_buffer,          \* List[bytes]
  incoming_audio_bytes,  \* loop variable of the read loop
  total_buffered,        \* local of the read loop
  combined_audio,        \* b''.join(audio_buffer) of the current turn
  transcription,         \* result of transcribe_audio_data
  ai_response,           \* accumulated response text
  stream,                \* deltas the open response stream has yet to yield
  sent,                  \* events handed to websocket.send_json, in order
  tasks,                 \* save_to_db tasks created, in creation order
  conversations,         \* rows of table conversations, in commit order
  sessions,              \* rows of table sessions
  nframes,               \* frames read so far
  turn,                  \* number of the current / last turn
  turn_log,              \* history: what happened in each turn
  end_calls,             \* history: invocations of end_session
  exit_path,             \* history: how the read loop was left
  end_result,            \* history: outcome of the close write
  lifespan,              \* locals and position of app_lifespan
  stt                    \* locals and position of transcribe_audio_data

vars ==
  << pc, client, db_session, audio_buffer, incoming_audio_bytes,
     total_buffered, combined_audio, transcription, ai_response, stream,
     sent, tasks, conversations, sessions, nframes, turn, turn_log, end_calls,
     exit_path, end_result, lifespan, stt >>

\* everything the coroutine voice_chat owns or does
handler ==
  << pc, db_session, audio_buffer, incoming_audio_bytes, total_buffered,
     combined_audio, transcription, ai_response, stream, sent, nframes,
     turn, turn_log, end_calls, exit_path >>

(* ------------------------- pure helpers -------------------------------- *)

\* sum(len(chunk) for chunk in audio_buffer)
RECURSIVE SumLen(_)
SumLen(buf) ==
  IF buf = <<>> THEN 0 ELSE Head(buf).len + SumLen(Tail(buf))

\* variant: only the chunk just received is handed on
Join_LastOnly(buf) ==
  IF buf = <<>> THEN <<>>
  ELSE IF buf[Len(buf)].len = 0 THEN <<>> ELSE <<buf[Len(buf)]>>

\* b''.join(audio_buffer): empty chunks contribute nothing, adjacent runs
\* of the same byte are one run of bytes
RECURSIVE Join(_)
Join(buf) ==
  IF buf = <<>> THEN <<>>
  ELSE LET h == Head(buf)
           rest == Join(Tail(buf))
       IN IF h.len = 0 THEN rest
          ELSE IF rest # <<>> /\ Head(rest).byte = h.byte
               THEN <<[byte |-> h.byte, len |-> h.len + Head(rest).len]>>
                      \o Tail(rest)
               ELSE <<h>> \o rest

\* the bytes of `runs` followed by the bytes of one more chunk
AppendBytes(runs, chunk) ==
  IF chunk.len = 0 THEN runs
  ELSE IF runs # <<>> /\ runs[Len(runs)].byte = chunk.byte
       THEN [runs EXCEPT ![Len(runs)].len = @ + chunk.len]
       ELSE Append(runs, chunk)

\* the bytes of the chunks of a list, first chunk first
RECURSIVE InOrder(_)
InOrder(chunks) ==
  IF chunks = <<>> THEN <<>>
  ELSE AppendBytes(InOrder(SubSeq(chunks, 1, Len(chunks) - 1)),
                   chunks[Len(chunks)])

\* number of bytes of a joined buffer
RECURSIVE ByteLen(_)
ByteLen(runs) ==
  IF runs = <<>> THEN 0 ELSE Head(runs).len + ByteLen(Tail(runs))

\* variant: the marker test is dropped from the flush decision
should_process_NoMarker(total, incoming) ==
  total >= min_audio_size \/ total >= max_buffer_size

should_process(total, incoming) ==
  (total >= min_audio_size /\ incoming.len = 0) \/ total >= max_buffer_size

\* str.strip()
RECURSIVE LStrip(_)
LStrip(s) ==
  IF s = <<>> THEN <<>>
  ELSE IF Head(s) = " " THEN LStrip(Tail(s)) ELSE s

RECURSIVE RStrip(_)
RStrip(s) ==
  IF s = <<>> THEN <<>>
  ELSE IF s[Len(s)] = " " THEN RStrip(SubSeq(s, 1, Len(s) - 1)) ELSE s

Strip(s) == RStrip(LStrip(s))

\* variant: the check only tests `transcription is None`
IsBlank_IsNone(t) == FALSE

\* `not transcription or len(transcription.strip()) == 0`
IsBlank(t) == t = <<>> \/ Len(Strip(t)) = 0

\* variant: the except branch returns the error message as the transcript
transcribe_audio_data_ErrorText(o) ==
  IF o.raised THEN <<"e">> ELSE Strip(o.text)

\* app/stt.py: the stripped answer, or "" when anything raised
transcribe_audio_data(o) ==
  IF o.raised THEN <<>> ELSE Strip(o.text)

\* concatenation of a sequence of texts
RECURSIVE Concat(_)
Concat(ts) ==
  IF ts = <<>> THEN <<>> ELSE Head(ts) \o Concat(Tail(ts))

\* history record opened when a turn starts; failed_before is the number of
\* turn writes that had already failed at that moment
NewTurn(audio, failed) ==
  [ audio |-> audio, upstream |-> "pending", response |-> <<>>,
    transcription |-> <<>>, invoked |-> FALSE, yielded |-> <<>>,
    outcome |-> "running", dispatched |-> FALSE, failed_before |-> failed ]

\* locals of app_lifespan while the application is serving: startup has
\* completed and the generator is suspended at its yield
Serving ==
  [ at |-> "yield", db |-> "initialized", aiohttp_session |-> "open",
    groq_client |-> "open", groq_model |-> "created",
    groq_agent |-> "created", app_state |-> TRUE, raised |-> "none",
    exit |-> "none" ]

\* locals of transcribe_audio_data when no call is followed step by step
NotCalled ==
  [ at |-> "idle", audio_data |-> <<>>, temp_file_path |-> "None",
    on_disk |-> FALSE, content |-> <<>>, raised |-> "none",
    result |-> <<>> ]

(* ----------------------------- Init ------------------------------------ *)
\* websocket.accept() has returned; create_session is being awaited
Init ==
  /\ pc = "create_session"
  /\ client = "connected"
  /\ db_session = None
  /\ audio_buffer = <<>>
  /\ incoming_audio_bytes = Marker
  /\ total_buffered = 0
  /\ combined_audio = <<>>
  /\ transcription = <<>>
  /\ ai_response = <<>>
  /\ stream = <<>>
  /\ sent = <<>>
  /\ tasks = <<>>
  /\ conversations = <<>>
  /\ sessions = <<>>
  /\ nframes = 0
  /\ turn = 0
  /\ turn_log = <<>>
  /\ end_calls = 0
  /\ exit_path = "none"
  /\ end_result = "none"
  /\ lifespan = Serving
  /\ stt = NotCalled

(* --------------------------- accept ------------------------------------ *)
CreateSessionOk ==
  /\ pc = "create_session"
  /\ sessions' = Append(sessions,
       [id |-> SessionId, is_active |-> TRUE, ended_at |-> "NULL"])
  /\ db_session' = SessionId
  /\ pc' = "recv"
  /\ UNCHANGED << client, audio_buffer, incoming_audio_bytes, total_buffered,
                  combined_audio, transcription, ai_response, stream, sent, tasks,
                  conversations, nframes, turn, turn_log, end_calls,
                  exit_path,
                  end_result,
                  lifespan,
                  stt >>

\* create_session raised: logged, db_session stays None
CreateSessionFail ==
  /\ pc = "create_session"
  /\ db_session' = None
  /\ pc' = "recv"
  /\ UNCHANGED << client, audio_buffer, incoming_audio_bytes, total_buffered,
                  combined_audio, transcription, ai_response, stream, sent, tasks,
                  conversations, sessions, nframes, turn, turn_log,
                  end_calls, exit_path,
                  end_result,
                  lifespan,
                  stt >>

(* -------------------------- read loop ---------------------------------- *)
\* variant: only a marker flushes, the buffer grows past max_buffer_size
ReceiveFrame_NoMaxFlush(f) ==
  /\ pc = "recv"
  /\ client = "connected"
  /\ nframes < MaxFrames
  /\ turn < MaxTurns
  /\ nframes' = nframes + 1
  /\ incoming_audio_bytes' = f
  /\ LET buf == Append(audio_buffer, f)
         total == SumLen(buf)
     IN /\ total_buffered' = total
        /\ IF ~(total >= min_audio_size /\ f.len = 0)
           THEN /\ audio_buffer' = buf
                /\ pc' = "recv"
                /\ UNCHANGED << combined_audio, turn, turn_log >>
           ELSE /\ combined_audio' = Join(buf)
                /\ audio_buffer' = <<>>
                /\ turn' = turn + 1
                /\ turn_log' = Append(turn_log, NewTurn(Join(buf),
                     Cardinality({i \in DOMAIN tasks :
                                    tasks[i].state = "failed"})))
                /\ pc' = "transcribe"
  /\ UNCHANGED << client, db_session, transcription, ai_response, stream, sent,
                  tasks, conversations, sessions, end_calls, exit_path,
                  end_result,
                  lifespan,
                  stt >>

\* variant: a marker seen earlier since the last flush still counts
ReceiveFrame_MarkerLatched(f) ==
  /\ pc = "recv"
  /\ client = "connected"
  /\ nframes < MaxFrames
  /\ turn < MaxTurns
  /\ nframes' = nframes + 1
  /\ incoming_audio_bytes' = f
  /\ LET buf == Append(audio_buffer, f)
         total == SumLen(buf)
     IN /\ total_buffered' = total
        /\ IF ~(\/ total >= min_audio_size /\ \E k \in DOMAIN buf : buf[k].len = 0
              \/ total >= max_buffer_size)
           THEN /\ audio_buffer' = buf
                /\ pc' = "recv"
                /\ UNCHANGED << combined_audio, turn, turn_log >>
           ELSE /\ combined_audio' = Join(buf)
                /\ audio_buffer' = <<>>
                /\ turn' = turn + 1
                /\ turn_log' = Append(turn_log, NewTurn(Join(buf),
                     Cardinality({i \in DOMAIN tasks :
                                    tasks[i].state = "failed"})))
                /\ pc' = "transcribe"
  /\ UNCHANGED << client, db_session, transcription, ai_response, stream, sent,
                  tasks, conversations, sessions, end_calls, exit_path,
                  end_result,
                  lifespan,
                  stt >>

\* variant: a marker that arrives below min_audio_size empties the buffer
ReceiveFrame_DiscardsShort(f) ==
  /\ pc = "recv"
  /\ client = "connected"
  /\ nframes < MaxFrames
  /\ turn < MaxTurns
  /\ nframes' = nframes + 1
  /\ incoming_audio_bytes' = f
  /\ LET buf == Append(audio_buffer, f)
         total == SumLen(buf)
     IN /\ total_buffered' = total
        /\ IF ~should_process(total, f) /\ total < max_buffer_size
           THEN /\ audio_buffer' = IF f.len = 0 THEN <<>> ELSE buf
                /\ pc' = "recv"
                /\ UNCHANGED << combined_audio, turn, turn_log >>
           ELSE /\ combined_audio' = Join(buf)
                /\ audio_buffer' = <<>>
                /\ turn' = turn + 1
                /\ turn_log' = Append(turn_log, NewTurn(Join(buf),
                     Cardinality({i \in DOMAIN tasks :
                                    tasks[i].state = "failed"})))
                /\ pc' = "transcribe"
  /\ UNCHANGED << client, db_session, transcription, ai_response, stream, sent,
                  tasks, conversations, sessions, end_calls, exit_path,
                  end_result,
                  lifespan,
                  stt >>

\* variant: frames are read by a separate task, also while a turn is in flight
ReceiveFrame_Concurrent(f) ==
  /\ pc \in {"recv", "transcribe", "send_user", "stream", "send_ai"}
  /\ client = "connected"
  /\ nframes < MaxFrames
  /\ turn < MaxTurns
  /\ nframes' = nframes + 1
  /\ incoming_audio_bytes' = f
  /\ LET buf == Append(audio_buffer, f)
         total == SumLen(buf)
     IN /\ total_buffered' = total
        /\ IF pc # "recv" \/ (~should_process(total, f) /\ total < max_buffer_size)
           THEN /\ audio_buffer' = buf
                /\ pc' = pc
                /\ UNCHANGED << combined_audio, turn, turn_log >>
           ELSE /\ combined_audio' = Join(buf)
                /\ audio_buffer' = <<>>
                /\ turn' = turn + 1
                /\ turn_log' = Append(turn_log, NewTurn(Join(buf),
                     Cardinality({i \in DOMAIN tasks :
                                    tasks[i].state = "failed"})))
                /\ pc' = "transcribe"
  /\ UNCHANGED << client, db_session, transcription, ai_response, stream, sent,
                  tasks, conversations, sessions, end_calls, exit_path,
                  end_result,
                  lifespan,
                  stt >>

\* one iteration of `async for incoming_audio_bytes in iter_bytes()` up to
\* either `continue` or the await of transcribe_audio_data
ReceiveFrame(f) ==
  /\ pc = "recv"
  /\ client = "connected"
  /\ nframes < MaxFrames
  /\ turn < MaxTurns
  /\ nframes' = nframes + 1
  /\ incoming_audio_bytes' = f
  /\ LET buf == Append(audio_buffer, f)
         total == SumLen(buf)
     IN /\ total_buffered' = total
        /\ IF ~should_process(total, f) /\ total < max_buffer_size
           THEN /\ audio_buffer' = buf
                /\ pc' = "recv"
                /\ UNCHANGED << combined_audio, turn, turn_log >>
           ELSE /\ combined_audio' = Join(buf)
                /\ audio_buffer' = <<>>
                /\ turn' = turn + 1
                /\ turn_log' = Append(turn_log, NewTurn(Join(buf),
                     Cardinality({i \in DOMAIN tasks :
                                    tasks[i].state = "failed"})))
                /\ pc' = "transcribe"
  /\ UNCHANGED << client, db_session, transcription, ai_response, stream, sent,
                  tasks, conversations, sessions, end_calls, exit_path,
                  end_result,
                  lifespan,
                  stt >>

Receive == \E f \in Frames : ReceiveFrame(f)

\* iter_bytes swallows WebSocketDisconnect: the loop ends normally
StreamEnd ==
  /\ pc = "recv"
  /\ client = "disconnected"
  /\ pc' = "finally"
  /\ exit_path' = "stream_end"
  /\ UNCHANGED << client, db_session, audio_buffer, incoming_audio_bytes,
                  total_buffered, combined_audio, transcription, ai_response, stream,
                  sent, tasks, conversations, sessions, nframes, turn,
                  turn_log, end_calls,
                  end_result,
                  lifespan,
                  stt >>

\* variant: the exception path returns without running the cleanup
ReceiveError_SkipsFinally ==
  /\ pc = "recv"
  /\ client = "connected"
  /\ pc' = "closed"
  /\ exit_path' = "exception"
  /\ UNCHANGED << client, db_session, audio_buffer, incoming_audio_bytes,
                  total_buffered, combined_audio, transcription, ai_response, stream,
                  sent, tasks, conversations, sessions, nframes, turn,
                  turn_log, end_calls,
                  end_result,
                  lifespan,
                  stt >>

\* any other exception out of iter_bytes (e.g. a non-binary message) is
\* caught by the outer `except Exception`
ReceiveError ==
  /\ pc = "recv"
  /\ client = "connected"
  /\ pc' = "finally"
  /\ exit_path' = "exception"
  /\ UNCHANGED << client, db_session, audio_buffer, incoming_audio_bytes,
                  total_buffered, combined_audio, transcription, ai_response, stream,
                  sent, tasks, conversations, sessions, nframes, turn,
                  turn_log, end_calls,
                  end_result,
                  lifespan,
                  stt >>

\* the peer goes away while the handler is in its loop
ClientDisconnect ==
  /\ client = "connected"
  /\ pc \notin {"finally", "end_session", "closed"}
  /\ client' = "disconnected"
  /\ UNCHANGED << pc, db_session, audio_buffer, incoming_audio_bytes,
                  total_buffered, combined_audio, transcription, ai_response, stream,
                  sent, tasks, conversations, sessions, nframes, turn,
                  turn_log, end_calls, exit_path,
                  end_result,
                  lifespan,
                  stt >>

(* ----------------------------- a turn --------------------------------- *)
\* variant: the guard on db_session is missing
HasSession_Always(s) == TRUE

\* `if db_session:`
HasSession(s) == s # None

\* variant: `ai_response = message` instead of `+=`
Accumulate_Overwrites(resp, message) == message

\* `ai_response += message`
Accumulate(resp, message) == resp \o message

\* variant: a turn error is not contained and ends the read loop
TurnError_TearsDown ==
  /\ audio_buffer' = <<>>
  /\ pc' = "finally"
  /\ turn_log' = [turn_log EXCEPT ![turn].outcome = "aborted"]

\* the inner `except Exception`: log, audio_buffer.clear(), continue
TurnError ==
  /\ audio_buffer' = <<>>
  /\ pc' = "recv"
  /\ turn_log' = [turn_log EXCEPT ![turn].outcome = "aborted"]

\* await transcribe_audio_data(...) returns, then the emptiness check
Transcribe(o) ==
  /\ pc = "transcribe"
  /\ LET text == transcribe_audio_data(o)
         log == [turn_log EXCEPT
                   ![turn].upstream = IF o.raised THEN "raised" ELSE "ok",
                   ![turn].response = o.text,
                   ![turn].transcription = text]
     IN /\ transcription' = text
        /\ IF IsBlank(text)
           THEN /\ pc' = "recv"
                /\ turn_log' = [log EXCEPT ![turn].outcome = "skipped"]
           ELSE /\ pc' = "send_user"
                /\ turn_log' = log
  /\ UNCHANGED << client, db_session, audio_buffer, incoming_audio_bytes,
                  total_buffered, combined_audio, ai_response, stream, sent, tasks,
                  conversations, sessions, nframes, turn, end_calls,
                  exit_path,
                  end_result,
                  lifespan,
                  stt >>

TranscribeStep == \E o \in UpstreamOutcomes : Transcribe(o)

\* variant: the agent is invoked without the transcript having been sent
SendUserTranscript_NotSent ==
  /\ pc = "send_user"
  /\ ai_response' = <<>>
  /\ \E s \in Streams : stream' = s
  /\ pc' = "stream"
  /\ turn_log' = [turn_log EXCEPT ![turn].invoked = TRUE]
  /\ UNCHANGED << client, db_session, audio_buffer, incoming_audio_bytes,
                  total_buffered, combined_audio, transcription, sent, tasks,
                  conversations, sessions, nframes, turn, end_calls,
                  exit_path,
                  end_result,
                  lifespan,
                  stt >>

\* await websocket.send_json(user_transcript), then agent.run_stream(...)
\* is entered with the transcript as prompt
SendUserTranscript ==
  /\ pc = "send_user"
  /\ IF client = "connected"
     THEN /\ sent' = Append(sent, [type |-> "user_transcript",
                                   text |-> transcription, turn |-> turn])
          /\ ai_response' = <<>>
          /\ \E s \in Streams : stream' = s
          /\ pc' = "stream"
          /\ turn_log' = [turn_log EXCEPT ![turn].invoked = TRUE]
          /\ UNCHANGED audio_buffer
     ELSE /\ TurnError
          /\ UNCHANGED << sent, ai_response, stream >>
  /\ UNCHANGED << client, db_session, incoming_audio_bytes, total_buffered,
                  combined_audio, transcription, tasks, conversations,
                  sessions, nframes, turn, end_calls, exit_path,
                  end_result,
                  lifespan,
                  stt >>

\* variant: every delta is forwarded to the client as it is received
StreamFragment_Forwards ==
  /\ pc = "stream"
  /\ stream # <<>>
  /\ ai_response' = Accumulate(ai_response, Head(stream))
  /\ stream' = Tail(stream)
  /\ sent' = Append(sent, [type |-> "ai_transcript",
                           text |-> Head(stream), turn |-> turn])
  /\ turn_log' = [turn_log EXCEPT ![turn].yielded = Append(@, Head(stream))]
  /\ UNCHANGED << pc, client, db_session, audio_buffer, incoming_audio_bytes,
                  total_buffered, combined_audio, transcription, tasks,
                  conversations, sessions, nframes, turn, end_calls,
                  exit_path, end_result,
                  lifespan,
                  stt >>

\* one iteration of `async for message in result.stream_text(delta=True)`
StreamFragment ==
  /\ pc = "stream"
  /\ stream # <<>>
  /\ ai_response' = Accumulate(ai_response, Head(stream))
  /\ stream' = Tail(stream)
  /\ turn_log' = [turn_log EXCEPT ![turn].yielded = Append(@, Head(stream))]
  /\ UNCHANGED << pc, client, db_session, audio_buffer, incoming_audio_bytes,
                  total_buffered, combined_audio, transcription, sent, tasks,
                  conversations, sessions, nframes, turn, end_calls,
                  exit_path,
                  end_result,
                  lifespan,
                  stt >>

\* variant: the `async with` block is left before the stream is exhausted
StreamComplete_Early ==
  /\ pc = "stream"
  /\ pc' = "send_ai"
  /\ UNCHANGED << client, db_session, audio_buffer, incoming_audio_bytes,
                  total_buffered, combined_audio, transcription, ai_response,
                  stream, sent, tasks, conversations, sessions, nframes, turn,
                  turn_log, end_calls, exit_path, end_result,
                  lifespan,
                  stt >>

\* the stream is exhausted and the `async with` block is left
StreamComplete ==
  /\ pc = "stream"
  /\ stream = <<>>
  /\ pc' = "send_ai"
  /\ UNCHANGED << client, db_session, audio_buffer, incoming_audio_bytes,
                  total_buffered, combined_audio, transcription, ai_response,
                  stream, sent, tasks, conversations, sessions, nframes, turn,
                  turn_log, end_calls, exit_path,
                  end_result,
                  lifespan,
                  stt >>

\* variant: a failing stream still dispatches the write with the partial text
StreamFail_PersistsPartial ==
  /\ pc = "stream"
  /\ TurnError
  /\ stream' = <<>>
  /\ tasks' = IF HasSession(db_session) /\ ai_response # <<>>
              THEN Append(tasks,
                     [turn |-> turn, session_id |-> db_session,
                      user_transcript |-> transcription,
                      ai_response |-> ai_response,
                      processing_time |-> "elapsed",
                      state |-> "pending"])
              ELSE tasks
  /\ UNCHANGED << client, db_session, incoming_audio_bytes, total_buffered,
                  combined_audio, transcription, ai_response, sent,
                  conversations, sessions, nframes, turn, end_calls,
                  exit_path, end_result,
                  lifespan,
                  stt >>

\* run_stream or stream_text raises (before the first delta or later); the
\* `async with` block closes the stream
StreamFail ==
  /\ pc = "stream"
  /\ TurnError
  /\ stream' = <<>>
  /\ UNCHANGED << client, db_session, incoming_audio_bytes, total_buffered,
                  combined_audio, transcription, ai_response, sent, tasks,
                  conversations, sessions, nframes, turn, end_calls,
                  exit_path,
                  end_result,
                  lifespan,
                  stt >>

\* variant: the write is awaited before the handler goes back to reading
SendAiTranscript_AwaitsWrite ==
  /\ pc = "send_ai"
  /\ IF client = "connected"
     THEN /\ sent' = Append(sent, [type |-> "ai_transcript",
                                   text |-> ai_response, turn |-> turn])
          /\ tasks' = IF HasSession(db_session)
                      THEN Append(tasks,
                             [turn |-> turn, session_id |-> db_session,
                              user_transcript |-> transcription,
                              ai_response |-> ai_response,
                              processing_time |-> "elapsed",
                              state |-> "committed"])
                      ELSE tasks
          /\ conversations' = IF HasSession(db_session)
                              THEN Append(conversations,
                                     [session_id |-> db_session,
                                      user_transcript |-> transcription,
                                      ai_response |-> ai_response,
                                      processing_time |-> "elapsed",
                                      audio_duration |-> "NULL",
                                      turn |-> turn])
                              ELSE conversations
          /\ pc' = "recv"
          /\ turn_log' = [turn_log EXCEPT
                            ![turn].outcome = "completed",
                            ![turn].dispatched = HasSession(db_session)]
          /\ UNCHANGED audio_buffer
     ELSE /\ TurnError
          /\ UNCHANGED << sent, tasks, conversations >>
  /\ UNCHANGED << client, db_session, incoming_audio_bytes, total_buffered,
                  combined_audio, transcription, ai_response, stream,
                  sessions, nframes, turn, end_calls, exit_path, end_result,
                  lifespan,
                  stt >>

\* await websocket.send_json(ai_transcript), then create_task(save_to_db)
SendAiTranscript ==
  /\ pc = "send_ai"
  /\ IF client = "connected"
     THEN /\ sent' = Append(sent, [type |-> "ai_transcript",
                                   text |-> ai_response, turn |-> turn])
          /\ tasks' = IF HasSession(db_session)
                      THEN Append(tasks,
                             [turn |-> turn, session_id |-> db_session,
                              user_transcript |-> transcription,
                              ai_response |-> ai_response,
                              processing_time |-> "elapsed",
                              state |-> "pending"])
                      ELSE tasks
          /\ pc' = "recv"
          /\ turn_log' = [turn_log EXCEPT
                            ![turn].outcome = "completed",
                            ![turn].dispatched = HasSession(db_session)]
          /\ UNCHANGED audio_buffer
     ELSE /\ TurnError
          /\ UNCHANGED << sent, tasks >>
  /\ UNCHANGED << client, db_session, incoming_audio_bytes, total_buffered,
                  combined_audio, transcription, ai_response, stream, conversations,
                  sessions, nframes, turn, end_calls, exit_path,
                  end_result,
                  lifespan,
                  stt >>

(* ------------------- background save_to_db tasks ----------------------- *)
\* _save commits in a worker thread of asyncio.to_thread; the row gets the
\* four values passed to Conversation(...), audio_duration is left NULL.
\* processing_time is a wall-clock difference, kept as an opaque value.
SaveCommit(i) ==
  /\ i \in DOMAIN tasks
  /\ tasks[i].state = "pending"
  /\ conversations' = Append(conversations,
       [session_id |-> tasks[i].session_id,
        user_transcript |-> tasks[i].user_transcript,
        ai_response |-> tasks[i].ai_response,
        processing_time |-> tasks[i].processing_time,
        audio_duration |-> "NULL",
        turn |-> tasks[i].turn])
  /\ tasks' = [tasks EXCEPT ![i].state = "committed"]
  /\ UNCHANGED << client, sessions, handler,
                  end_result,
                  lifespan,
                  stt >>

\* variant: the failure of the write is raised into the connection handler
SaveFail_Propagates(i) ==
  /\ i \in DOMAIN tasks
  /\ tasks[i].state = "pending"
  /\ tasks' = [tasks EXCEPT ![i].state = "failed"]
  /\ pc \notin {"finally", "end_session", "closed"}
  /\ pc' = "finally"
  /\ exit_path' = "exception"
  /\ UNCHANGED << client, conversations, sessions, db_session, audio_buffer,
                  incoming_audio_bytes, total_buffered, combined_audio,
                  transcription, ai_response, stream, sent, nframes, turn,
                  turn_log, end_calls,
                  end_result,
                  lifespan,
                  stt >>

\* _save raises inside its try: logged, db.rollback(), db.close()
SaveFail(i) ==
  /\ i \in DOMAIN tasks
  /\ tasks[i].state = "pending"
  /\ tasks' = [tasks EXCEPT ![i].state = "failed"]
  /\ UNCHANGED << client, conversations, sessions, handler,
                  end_result,
                  lifespan,
                  stt >>

SaveStep == \E i \in 1..MaxTurns : SaveCommit(i) \/ SaveFail(i)

(* ---------------------------- teardown --------------------------------- *)
\* variant: the finally block first waits for the writes still pending
Finally_AwaitsWrites ==
  /\ pc = "finally"
  /\ \A i \in DOMAIN tasks : tasks[i].state # "pending"
  /\ IF HasSession(db_session)
     THEN /\ end_calls' = end_calls + 1
          /\ pc' = "end_session"
     ELSE /\ pc' = "closed"
          /\ UNCHANGED end_calls
  /\ UNCHANGED << client, db_session, audio_buffer, incoming_audio_bytes,
                  total_buffered, combined_audio, transcription, ai_response,
                  stream, sent, tasks, conversations, sessions, nframes, turn,
                  turn_log, exit_path, end_result, lifespan,
                  stt >>

\* the `finally:` of voice_chat
Finally ==
  /\ pc = "finally"
  /\ IF HasSession(db_session)
     THEN /\ end_calls' = end_calls + 1
          /\ pc' = "end_session"
     ELSE /\ pc' = "closed"
          /\ UNCHANGED end_calls
  /\ UNCHANGED << client, db_session, audio_buffer, incoming_audio_bytes,
                  total_buffered, combined_audio, transcription, ai_response, stream,
                  sent, tasks, conversations, sessions, nframes, turn,
                  turn_log, exit_path,
                  end_result,
                  lifespan,
                  stt >>

\* variant: the close write clears is_active but leaves ended_at unset
EndSessionOk_NoEndedAt ==
  /\ pc = "end_session"
  /\ sessions' = [k \in DOMAIN sessions |->
                    IF sessions[k].id = db_session
                    THEN [sessions[k] EXCEPT !.is_active = FALSE]
                    ELSE sessions[k]]
  /\ pc' = "closed"
  /\ end_result' = "ok"
  /\ UNCHANGED << client, db_session, audio_buffer, incoming_audio_bytes,
                  total_buffered, combined_audio, transcription, ai_response,
                  stream, sent, tasks, conversations, nframes, turn, turn_log,
                  end_calls, exit_path,
                  lifespan,
                  stt >>

\* _end: the row is found, marked ended and committed
EndSessionOk ==
  /\ pc = "end_session"
  /\ sessions' = [k \in DOMAIN sessions |->
                    IF sessions[k].id = db_session
                    THEN [sessions[k] EXCEPT !.is_active = FALSE,
                                             !.ended_at = "utcnow"]
                    ELSE sessions[k]]
  /\ pc' = "closed"
  /\ end_result' = "ok"
  /\ UNCHANGED << client, db_session, audio_buffer, incoming_audio_bytes,
                  total_buffered, combined_audio, transcription, ai_response,
                  stream, sent, tasks, conversations, nframes, turn, turn_log,
                  end_calls, exit_path,
                  lifespan,
                  stt >>

\* _end raises: logged, db.rollback()
EndSessionFail ==
  /\ pc = "end_session"
  /\ pc' = "closed"
  /\ end_result' = "failed"
  /\ UNCHANGED << client, db_session, audio_buffer, incoming_audio_bytes,
                  total_buffered, combined_audio, transcription, ai_response,
                  stream, sent, tasks, conversations, sessions, nframes, turn,
                  turn_log, end_calls, exit_path,
                  lifespan,
                  stt >>

Next ==
  \/ CreateSessionOk
  \/ CreateSessionFail
  \/ Receive
  \/ StreamEnd
  \/ ReceiveError
  \/ ClientDisconnect
  \/ TranscribeStep
  \/ SendUserTranscript
  \/ StreamFragment
  \/ StreamComplete
  \/ StreamFail
  \/ SendAiTranscript
  \/ SaveStep
  \/ Finally
  \/ EndSessionOk
  \/ EndSessionFail

Spec == Init /\ [][Next]_vars

(* ---------------- app_lifespan: startup and shutdown ------------------- *)
\* The lifespan is followed on its own, from process start, with no
\* connection accepted: voice_chat's variables keep their initial values.
\* lifespan.at is the statement app_lifespan is at; a client local is
\* "None", "open", "closed" or "close_failed" (close() raised);
\* lifespan.raised names the statement whose exception is in flight.

\* the factories of the try block whose exception reaches `except Exception`
CreateStages ==
  { "create_aiohttp_session", "create_groq_client", "create_groq_model",
    "create_groq_agent" }

\* voice_chat has not been entered
NoConnection ==
  /\ pc = "not_accepted"
  /\ client = "disconnected"
  /\ db_session = None
  /\ audio_buffer = <<>>
  /\ incoming_audio_bytes = Marker
  /\ total_buffered = 0
  /\ combined_audio = <<>>
  /\ transcription = <<>>
  /\ ai_response = <<>>
  /\ stream = <<>>
  /\ sent = <<>>
  /\ tasks = <<>>
  /\ conversations = <<>>
  /\ sessions = <<>>
  /\ nframes = 0
  /\ turn = 0
  /\ turn_log = <<>>
  /\ end_calls = 0
  /\ exit_path = "none"
  /\ end_result = "none"

\* app_lifespan has been entered
InitLifespan ==
  /\ NoConnection
  /\ lifespan =
       [ at |-> "get_settings", db |-> "pending", aiohttp_session |-> "None",
         groq_client |-> "None", groq_model |-> "None",
         groq_agent |-> "None", app_state |-> FALSE, raised |-> "none",
         exit |-> "none" ]
  /\ stt = NotCalled

\* the variables of voice_chat, which no step of app_lifespan touches
connection ==
  << pc, client, db_session, audio_buffer, incoming_audio_bytes,
     total_buffered, combined_audio, transcription, ai_response, stream,
     sent, tasks, conversations, sessions, nframes, turn, turn_log, end_calls,
     exit_path, end_result >>

\* an exception raised inside the try block by statement `stage`
RaiseInTry(stage) ==
  lifespan' = [lifespan EXCEPT !.raised = stage, !.at = "except"]

\* settings = get_settings(), before the try block
GetSettingsOk ==
  /\ lifespan.at = "get_settings"
  /\ lifespan' = [lifespan EXCEPT !.at = "init_database"]
  /\ UNCHANGED << connection, stt >>

\* get_settings raises: neither except nor finally applies
GetSettingsFail ==
  /\ lifespan.at = "get_settings"
  /\ lifespan' = [lifespan EXCEPT !.raised = "get_settings",
                                  !.at = "exited", !.exit = "raised"]
  /\ UNCHANGED << connection, stt >>

\* await asyncio.to_thread(init_database, settings) returns
InitDatabaseOk ==
  /\ lifespan.at = "init_database"
  /\ lifespan' = [lifespan EXCEPT !.db = "initialized",
                                  !.at = "create_aiohttp_session"]
  /\ UNCHANGED << connection, stt >>

\* init_database raises: logged by the inner except, "Continue anyway"
InitDatabaseFail ==
  /\ lifespan.at = "init_database"
  /\ lifespan' = [lifespan EXCEPT !.db = "failed",
                                  !.at = "create_aiohttp_session"]
  /\ UNCHANGED << connection, stt >>

\* aiohttp_session = create_aiohttp_session()
CreateAiohttpSessionOk ==
  /\ lifespan.at = "create_aiohttp_session"
  /\ lifespan' = [lifespan EXCEPT !.aiohttp_session = "open",
                                  !.at = "create_groq_client"]
  /\ UNCHANGED << connection, stt >>

CreateAiohttpSessionFail ==
  /\ lifespan.at = "create_aiohttp_session"
  /\ RaiseInTry("create_aiohttp_session")
  /\ UNCHANGED << connection, stt >>

\* groq_client = create_groq_client(settings=settings)
CreateGroqClientOk ==
  /\ lifespan.at = "create_groq_client"
  /\ lifespan' = [lifespan EXCEPT !.groq_client = "open",
                                  !.at = "create_groq_model"]
  /\ UNCHANGED << connection, stt >>

CreateGroqClientFail ==
  /\ lifespan.at = "create_groq_client"
  /\ RaiseInTry("create_groq_client")
  /\ UNCHANGED << connection, stt >>

\* _groq_model = create_groq_model(settings=settings)
CreateGroqModelOk ==
  /\ lifespan.at = "create_groq_model"
  /\ lifespan' = [lifespan EXCEPT !.groq_model = "created",
                                  !.at = "create_groq_agent"]
  /\ UNCHANGED << connection, stt >>

CreateGroqModelFail ==
  /\ lifespan.at = "create_groq_model"
  /\ RaiseInTry("create_groq_model")
  /\ UNCHANGED << connection, stt >>

\* groq_agent = create_groq_agent(...)
CreateGroqAgentOk ==
  /\ lifespan.at = "create_groq_agent"
  /\ lifespan' = [lifespan EXCEPT !.groq_agent = "created", !.at = "store"]
  /\ UNCHANGED << connection, stt >>

CreateGroqAgentFail ==
  /\ lifespan.at = "create_groq_agent"
  /\ RaiseInTry("create_groq_agent")
  /\ UNCHANGED << connection, stt >>

\* app.state.* = ...; the generator suspends at yield and the app serves
StoreAndYield ==
  /\ lifespan.at = "store"
  /\ lifespan' = [lifespan EXCEPT !.app_state = TRUE, !.at = "yield"]
  /\ UNCHANGED << connection, stt >>

\* shutdown: the generator is resumed after the yield and falls into finally
Shutdown ==
  /\ lifespan.at = "yield"
  /\ lifespan' = [lifespan EXCEPT !.at = "close_aiohttp"]
  /\ UNCHANGED << connection, stt >>

\* an Exception is thrown into the generator at the yield
ThrowAtYield ==
  /\ lifespan.at = "yield"
  /\ RaiseInTry("yield")
  /\ UNCHANGED << connection, stt >>

\* the generator is cancelled at the yield: CancelledError is not an
\* Exception, the except clause is passed over
CancelAtYield ==
  /\ lifespan.at = "yield"
  /\ lifespan' = [lifespan EXCEPT !.raised = "cancelled",
                                  !.at = "close_aiohttp"]
  /\ UNCHANGED << connection, stt >>

\* except Exception: log, traceback, raise; finally runs next
ExceptReraise ==
  /\ lifespan.at = "except"
  /\ lifespan' = [lifespan EXCEPT !.at = "close_aiohttp"]
  /\ UNCHANGED << connection, stt >>

\* finally: `if aiohttp_session:` is false
CloseAiohttpSkip ==
  /\ lifespan.at = "close_aiohttp"
  /\ lifespan.aiohttp_session = "None"
  /\ lifespan' = [lifespan EXCEPT !.at = "close_groq"]
  /\ UNCHANGED << connection, stt >>

\* await aiohttp_session.close() returns
CloseAiohttpOk ==
  /\ lifespan.at = "close_aiohttp"
  /\ lifespan.aiohttp_session # "None"
  /\ lifespan' = [lifespan EXCEPT !.aiohttp_session = "closed",
                                  !.at = "close_groq"]
  /\ UNCHANGED << connection, stt >>

\* variant: an error of the first close leaves the finally block
CloseAiohttpFail_Propagates ==
  /\ lifespan.at = "close_aiohttp"
  /\ lifespan.aiohttp_session # "None"
  /\ lifespan' = [lifespan EXCEPT !.aiohttp_session = "close_failed",
                                  !.at = "exited", !.exit = "raised"]
  /\ UNCHANGED << connection, stt >>

\* aiohttp_session.close() raises: logged, the finally block goes on
CloseAiohttpFail ==
  /\ lifespan.at = "close_aiohttp"
  /\ lifespan.aiohttp_session # "None"
  /\ lifespan' = [lifespan EXCEPT !.aiohttp_session = "close_failed",
                                  !.at = "close_groq"]
  /\ UNCHANGED << connection, stt >>

\* how app_lifespan is left once the finally block is done
ExitKind == IF lifespan.raised = "none" THEN "returned" ELSE "raised"

\* finally: `if groq_client:` is false
CloseGroqSkip ==
  /\ lifespan.at = "close_groq"
  /\ lifespan.groq_client = "None"
  /\ lifespan' = [lifespan EXCEPT !.at = "exited", !.exit = ExitKind]
  /\ UNCHANGED << connection, stt >>

\* await groq_client.close() returns
CloseGroqOk ==
  /\ lifespan.at = "close_groq"
  /\ lifespan.groq_client # "None"
  /\ lifespan' = [lifespan EXCEPT !.groq_client = "closed",
                                  !.at = "exited", !.exit = ExitKind]
  /\ UNCHANGED << connection, stt >>

\* groq_client.close() raises: logged
CloseGroqFail ==
  /\ lifespan.at = "close_groq"
  /\ lifespan.groq_client # "None"
  /\ lifespan' = [lifespan EXCEPT !.groq_client = "close_failed",
                                  !.at = "exited", !.exit = ExitKind]
  /\ UNCHANGED << connection, stt >>

NextLifespan ==
  \/ GetSettingsOk
  \/ GetSettingsFail
  \/ InitDatabaseOk
  \/ InitDatabaseFail
  \/ CreateAiohttpSessionOk
  \/ CreateAiohttpSessionFail
  \/ CreateGroqClientOk
  \/ CreateGroqClientFail
  \/ CreateGroqModelOk
  \/ CreateGroqModelFail
  \/ CreateGroqAgentOk
  \/ CreateGroqAgentFail
  \/ StoreAndYield
  \/ Shutdown
  \/ ThrowAtYield
  \/ CancelAtYield
  \/ ExceptReraise
  \/ CloseAiohttpSkip
  \/ CloseAiohttpOk
  \/ CloseAiohttpFail
  \/ CloseGroqSkip
  \/ CloseGroqOk
  \/ CloseGroqFail

SpecLifespan == InitLifespan /\ [][NextLifespan]_vars

(* ------------- transcribe_audio_data: the staging file ----------------- *)
\* One call of transcribe_audio_data is followed on its own, statement by
\* statement. stt.on_disk says whether the file NamedTemporaryFile created
\* exists, stt.content is what has been written to it, stt.raised names the
\* statement whose exception the `except Exception` clause catches.

\* the audio a flush of at most two frames hands over
AudioInputs ==
  { Join(buf) :
      buf \in { q \in Frames \X Frames :
                  /\ ~should_process(q[1].len, q[1])
                  /\ should_process(q[1].len + q[2].len, q[2]) } }

\* transcribe_audio_data has been called with audio_data
InitStt ==
  /\ NoConnection
  /\ lifespan = Serving
  /\ \E a \in AudioInputs :
       stt = [ at |-> "create", audio_data |-> a, temp_file_path |-> "None",
               on_disk |-> FALSE, content |-> <<>>, raised |-> "none",
               result |-> <<>> ]

\* an exception raised inside the try block by statement `stage`
RaiseInStt(stage) ==
  stt' = [stt EXCEPT !.raised = stage, !.at = "except"]

\* tempfile.NamedTemporaryFile(mode='wb', suffix='.webm', delete=False)
NamedTemporaryFileOk ==
  /\ stt.at = "create"
  /\ stt' = [stt EXCEPT !.on_disk = TRUE, !.at = "write"]
  /\ UNCHANGED << connection, lifespan >>

\* no file could be created
NamedTemporaryFileFail ==
  /\ stt.at = "create"
  /\ RaiseInStt("create")
  /\ UNCHANGED << connection, lifespan >>

\* temp_file.write(audio_data); temp_file_path = temp_file.name
WriteOk ==
  /\ stt.at = "write"
  /\ stt' = [stt EXCEPT !.content = stt.audio_data,
                        !.temp_file_path = "temp_file.name",
                        !.at = "close"]
  /\ UNCHANGED << connection, lifespan >>

\* temp_file.write raises: the assignment of temp_file_path is not reached,
\* the `with` closes the file, which delete=False keeps on disk
WriteFail ==
  /\ stt.at = "write"
  /\ RaiseInStt("write")
  /\ UNCHANGED << connection, lifespan >>

\* leaving the `with` block closes (flushes) the file
CloseTempOk ==
  /\ stt.at = "close"
  /\ stt' = [stt EXCEPT !.at = "open"]
  /\ UNCHANGED << connection, lifespan >>

\* the flush at close raises
CloseTempFail ==
  /\ stt.at = "close"
  /\ RaiseInStt("close")
  /\ UNCHANGED << connection, lifespan >>

\* open(temp_file_path, 'rb')
OpenOk ==
  /\ stt.at = "open"
  /\ stt' = [stt EXCEPT !.at = "call"]
  /\ UNCHANGED << connection, lifespan >>

OpenFail ==
  /\ stt.at = "open"
  /\ RaiseInStt("open")
  /\ UNCHANGED << connection, lifespan >>

\* await api_client.audio.transcriptions.create(...), strip, return text
UpstreamCall(o) ==
  /\ stt.at = "call"
  /\ IF o.raised
     THEN RaiseInStt("call")
     ELSE stt' = [stt EXCEPT !.result = transcribe_audio_data(o),
                             !.at = "finally"]
  /\ UNCHANGED << connection, lifespan >>

UpstreamCallStep == \E o \in UpstreamOutcomes : UpstreamCall(o)

\* except Exception: log, return ""
ExceptReturnEmpty ==
  /\ stt.at = "except"
  /\ stt' = [stt EXCEPT !.result = <<>>, !.at = "finally"]
  /\ UNCHANGED << connection, lifespan >>

\* `if temp_file_path and os.path.exists(temp_file_path)`
ShouldUnlink == stt.temp_file_path # "None" /\ stt.on_disk

\* finally: the condition is false, nothing is removed
UnlinkSkip ==
  /\ stt.at = "finally"
  /\ ~ShouldUnlink
  /\ stt' = [stt EXCEPT !.at = "returned"]
  /\ UNCHANGED << connection, lifespan >>

\* os.unlink(temp_file_path)
UnlinkOk ==
  /\ stt.at = "finally"
  /\ ShouldUnlink
  /\ stt' = [stt EXCEPT !.on_disk = FALSE, !.content = <<>>,
                        !.at = "returned"]
  /\ UNCHANGED << connection, lifespan >>

\* os.unlink raises: a warning is logged
UnlinkFail ==
  /\ stt.at = "finally"
  /\ ShouldUnlink
  /\ stt' = [stt EXCEPT !.at = "returned"]
  /\ UNCHANGED << connection, lifespan >>

NextStt ==
  \/ NamedTemporaryFileOk
  \/ NamedTemporaryFileFail
  \/ WriteOk
  \/ WriteFail
  \/ CloseTempOk
  \/ CloseTempFail
  \/ OpenOk
  \/ OpenFail
  \/ UpstreamCallStep
  \/ ExceptReturnEmpty
  \/ UnlinkSkip
  \/ UnlinkOk
  \/ UnlinkFail

SpecStt == InitStt /\ [][NextStt]_vars

(* ======================= properties ==================================== *)

\* C1 (as amended): on receipt of a frame the buffer is flushed if and only
\* if (total buffered bytes >= min_audio_size and the frame just received is
\* the empty end-of-utterance marker) or total buffered bytes >=
\* max_buffer_size; a flush hands over all buffered bytes, never an empty
\* buffer, and leaves the buffer empty.
C1_FlushPolicy ==
  [][ nframes' = nframes + 1 =>
        LET total == SumLen(audio_buffer) + incoming_audio_bytes'.len
            flushed == pc' = "transcribe"
        IN /\ flushed <=>
                \/ total >= min_audio_size /\ incoming_audio_bytes' = Marker
                \/ total >= max_buffer_size
           /\ flushed => /\ total > 0
                         /\ ByteLen(combined_audio') = total
                         /\ audio_buffer' = <<>>
           /\ ~flushed => pc' = "recv"
    ]_vars

\* C1 witness: a marker frame flushed a buffer holding at least
\* min_audio_size and fewer than max_buffer_size bytes.
C1_Witness ==
  /\ pc = "transcribe"
  /\ incoming_audio_bytes = Marker
  /\ total_buffered >= min_audio_size
  /\ total_buffered < max_buffer_size

\* C1 as stated: the flush happens if and only if (total >= min and a marker
\* has been seen among the frames buffered since the last flush) or
\* total >= max.
C1_Original ==
  [][ nframes' = nframes + 1 =>
        LET buf == Append(audio_buffer, incoming_audio_bytes')
            total == SumLen(buf)
            marker_seen == \E k \in DOMAIN buf : buf[k].len = 0
            flushed == pc' = "transcribe"
        IN flushed <=>
             \/ total >= min_audio_size /\ marker_seen
             \/ total >= max_buffer_size
    ]_vars

\* C2: end_session is invoked at most once, not before the read loop is
\* left, and exactly once by the time the handler of a connection with a
\* session record has returned, whichever way the loop was left.
C2_CloseOnce ==
  /\ end_calls <= 1
  /\ pc \notin {"end_session", "closed"} => end_calls = 0
  /\ (pc = "closed" /\ db_session # None) => end_calls = 1
  /\ pc = "end_session" => (db_session # None /\ end_calls = 1)

\* C2 witness: a turn was aborted by an error, later an exception escaped
\* the read loop, and the handler returned after one end_session call.
C2_Witness ==
  /\ pc = "closed"
  /\ db_session # None
  /\ end_calls = 1
  /\ exit_path = "exception"
  /\ \E t \in DOMAIN turn_log : turn_log[t].outcome = "aborted"

\* C3: a turn whose transcription is empty or whitespace-only sends no
\* event, never invokes the agent, creates no write task and no row, and
\* is no longer in flight.
C3_BlankTurnSilent ==
  \A t \in DOMAIN turn_log :
    (turn_log[t].upstream # "pending"
       /\ Strip(turn_log[t].transcription) = <<>>) =>
      /\ \A k \in DOMAIN sent : sent[k].turn # t
      /\ ~turn_log[t].invoked
      /\ turn_log[t].yielded = <<>>
      /\ \A i \in DOMAIN tasks : tasks[i].turn # t
      /\ \A r \in DOMAIN conversations : conversations[r].turn # t
      /\ turn_log[t].outcome = "skipped"
      /\ t = turn => pc \in {"recv", "finally", "end_session", "closed"}

\* C3 witness: the recognizer answered with whitespace only and the turn
\* was skipped.
C3_Witness ==
  /\ pc = "recv"
  /\ turn \in DOMAIN turn_log
  /\ turn_log[turn].upstream = "ok"
  /\ turn_log[turn].response = <<" ">>
  /\ turn_log[turn].outcome = "skipped"

\* C4: a failing turn write changes nothing the connection handler owns or
\* has sent (no exception reaches it, no event goes to the client) and
\* leaves the client and the committed rows alone, so the handler goes on
\* from where it was.
C4_WriteFailureContained ==
  [][ (\E i \in DOMAIN tasks :
         tasks[i].state = "pending" /\ tasks'[i].state = "failed")
        => /\ handler' = handler
           /\ client' = client
           /\ conversations' = conversations
    ]_vars

\* C4 witness: a turn that started after a write had failed was transcribed,
\* answered and dispatched, and its own write committed.
C4_Witness ==
  \E t \in DOMAIN turn_log :
    /\ turn_log[t].failed_before > 0
    /\ turn_log[t].outcome = "completed"
    /\ turn_log[t].dispatched
    /\ \E i \in DOMAIN tasks : tasks[i].turn = t /\ tasks[i].state = "committed"

\* C5: for every dispatched turn write, the response text passed to
\* save_to_db equals the in-order concatenation of the deltas the stream
\* yielded in that turn and equals the concatenation, in send order, of the
\* ai_transcript texts sent in that turn; committed rows carry the same text.
C5_ResponseTextAgrees ==
  /\ \A i \in DOMAIN tasks :
       LET t == tasks[i].turn
           evs == SelectSeq(sent, LAMBDA e :
                              e.turn = t /\ e.type = "ai_transcript")
       IN /\ tasks[i].ai_response = Concat(turn_log[t].yielded)
          /\ Concat([k \in DOMAIN evs |-> evs[k].text]) = tasks[i].ai_response
  /\ \A r \in DOMAIN conversations :
       conversations[r].ai_response =
         Concat(turn_log[conversations[r].turn].yielded)

\* C5 witness: a write was dispatched for a turn whose stream yielded two
\* deltas.
C5_Witness ==
  \E i \in DOMAIN tasks : Len(turn_log[tasks[i].turn].yielded) = 2

\* C6: every ai_transcript event is preceded in the outbound order by a
\* user_transcript event of the same turn, and whenever the agent has been
\* invoked for a turn that turn's user_transcript has already been sent.
C6_TranscriptBeforeAnswer ==
  /\ \A k \in DOMAIN sent :
       sent[k].type = "ai_transcript" =>
         \E j \in 1..(k - 1) :
           /\ sent[j].type = "user_transcript"
           /\ sent[j].turn = sent[k].turn
  /\ \A t \in DOMAIN turn_log :
       turn_log[t].invoked =>
         \E j \in DOMAIN sent :
           /\ sent[j].type = "user_transcript"
           /\ sent[j].turn = t
           /\ sent[j].text = turn_log[t].transcription

\* C6 witness: an ai_transcript event has been sent.
C6_Witness ==
  \E k \in DOMAIN sent : sent[k].type = "ai_transcript"

\* C7: when the upstream transcription call fails the turn's transcript is
\* empty, nothing is sent and no write is dispatched for it, the buffer is
\* empty, and the handler is back at awaiting a frame with the connection
\* as it was.
C7_TranscriptionFailure ==
  /\ [](\A t \in DOMAIN turn_log :
          turn_log[t].upstream = "raised" =>
            /\ turn_log[t].transcription = <<>>
            /\ turn_log[t].outcome = "skipped"
            /\ ~turn_log[t].invoked
            /\ \A k \in DOMAIN sent : sent[k].turn # t
            /\ \A i \in DOMAIN tasks : tasks[i].turn # t)
  /\ [][ (pc = "transcribe" /\ turn_log'[turn].upstream = "raised")
           => /\ pc' = "recv"
              /\ audio_buffer' = <<>>
              /\ sent' = sent
              /\ tasks' = tasks
              /\ client' = client
              /\ exit_path' = exit_path
       ]_vars

\* C7 witness: after a turn whose transcription call failed, a later turn on
\* the same connection was transcribed and answered.
C7_Witness ==
  \E t, u \in DOMAIN turn_log :
    /\ t < u
    /\ turn_log[t].upstream = "raised"
    /\ turn_log[u].outcome = "completed"

\* C8: a step taken inside a turn never leaves the read loop; a turn error
\* empties the buffer, returns to awaiting a frame and sends nothing; only
\* user_transcript and ai_transcript events are ever sent, and none of the
\* latter for an aborted turn; the loop is left only from awaiting a frame.
C8_TurnErrorAbortsTurnOnly ==
  /\ [][ (pc \in {"transcribe", "send_user", "stream", "send_ai"}) =>
           (pc' \in {"transcribe", "send_user", "stream", "send_ai", "recv"})
       ]_vars
  /\ [][ (pc \in {"transcribe", "send_user", "stream", "send_ai"}
            /\ turn_log'[turn].outcome = "aborted")
           => /\ pc' = "recv"
              /\ audio_buffer' = <<>>
              /\ sent' = sent
              /\ tasks' = tasks
       ]_vars
  /\ [][ (pc # "finally" /\ pc' = "finally") =>
           /\ pc = "recv"
           /\ exit_path' \in {"stream_end", "exception"}
       ]_vars
  /\ [](\A k \in DOMAIN sent :
          /\ sent[k].type \in {"user_transcript", "ai_transcript"}
          /\ (sent[k].type = "ai_transcript" =>
                turn_log[sent[k].turn].outcome = "completed"))

\* C8 witness: the response stream failed after yielding a delta, and a
\* later turn on the same connection was completed.
C8_Witness ==
  \E t, u \in DOMAIN turn_log :
    /\ t < u
    /\ turn_log[t].outcome = "aborted"
    /\ turn_log[t].yielded # <<>>
    /\ turn_log[u].outcome = "completed"

\* C9: turn records are committed in the order their turns were submitted.
C9_WritesInSubmissionOrder ==
  \A r1, r2 \in DOMAIN conversations :
    r1 < r2 => conversations[r1].turn < conversations[r2].turn

\* C10: once create_session has failed, no turn write is dispatched or
\* committed and end_session is never invoked on that connection.
C10_NoSessionNoPersistence ==
  (pc # "create_session" /\ db_session = None) =>
    /\ tasks = <<>>
    /\ conversations = <<>>
    /\ sessions = <<>>
    /\ end_calls = 0
    /\ pc # "end_session"
    /\ \A t \in DOMAIN turn_log : ~turn_log[t].dispatched

\* C10 witness: with no session record a turn was transcribed and answered
\* (both events sent) and the handler has returned.
C10_Witness ==
  /\ db_session = None
  /\ pc = "closed"
  /\ \E k \in DOMAIN sent : sent[k].type = "ai_transcript"

\* C11: in every state each session row has ended_at set exactly when
\* is_active is false; a row never goes back from ended to active and its
\* ended_at never changes once set; a failed close write leaves the table
\* as it was and the handler returns normally.
C11_SessionRecord ==
  /\ [](\A k \in DOMAIN sessions :
          (sessions[k].ended_at # "NULL") <=> ~sessions[k].is_active)
  /\ [][ \A k \in DOMAIN sessions :
           ~sessions[k].is_active =>
             /\ k \in DOMAIN sessions'
             /\ sessions'[k] = sessions[k]
       ]_vars
  /\ [][ (end_result = "none" /\ end_result' = "failed") =>
           /\ sessions' = sessions
           /\ pc' = "closed"
           /\ \A k \in DOMAIN sessions : sessions[k].is_active
       ]_vars
  /\ [](end_result = "ok" =>
          \A k \in DOMAIN sessions :
            sessions[k].id = db_session => ~sessions[k].is_active)

\* C11 witness: the close write succeeded and the row is ended.
C11_Witness ==
  /\ end_result = "ok"
  /\ \E k \in DOMAIN sessions :
       ~sessions[k].is_active /\ sessions[k].ended_at = "utcnow"

\* C12: while a turn is transcribing or streaming, no frame is read, the
\* buffer stays empty and no other turn is started; at most one turn is in
\* flight and it is the current one.
C12_TurnsSequential ==
  /\ [][ (pc \in {"transcribe", "send_user", "stream", "send_ai"}) =>
           /\ nframes' = nframes
           /\ incoming_audio_bytes' = incoming_audio_bytes
           /\ audio_buffer' = audio_buffer
           /\ turn' = turn
           /\ Len(turn_log') = Len(turn_log)
       ]_vars
  /\ []((pc \in {"transcribe", "send_user", "stream", "send_ai"}) =>
          /\ audio_buffer = <<>>
          /\ turn \in DOMAIN turn_log
          /\ turn_log[turn].outcome = "running")
  /\ [](\A t \in DOMAIN turn_log :
          turn_log[t].outcome = "running" =>
            /\ t = turn
            /\ pc \in {"transcribe", "send_user", "stream", "send_ai"})

\* C12 witness: a response is streaming while the client is connected and
\* could send further frames.
C12_Witness ==
  /\ pc = "stream"
  /\ client = "connected"
  /\ nframes < MaxFrames
  /\ turn < MaxTurns
  /\ turn_log[turn].yielded # <<>>

\* C13: the step that creates a turn write leaves the write pending, commits
\* nothing and puts the handler back at awaiting a frame; whenever the
\* handler awaits a frame from a connected client it can read one, whatever
\* the state of the writes.
C13_DispatchDoesNotWait ==
  /\ [][ Len(tasks') > Len(tasks) =>
           /\ pc' = "recv"
           /\ tasks'[Len(tasks')].state = "pending"
           /\ conversations' = conversations
       ]_vars
  /\ []((pc = "recv" /\ client = "connected"
           /\ nframes < MaxFrames /\ turn < MaxTurns) => ENABLED Receive)

\* C13 witness: the next turn is in flight while the previous turn's write
\* is still pending.
C13_Witness ==
  /\ pc \in {"transcribe", "send_user", "stream", "send_ai"}
  /\ \E i \in DOMAIN tasks :
       tasks[i].state = "pending" /\ tasks[i].turn < turn

C16_FlushIsConcatenation ==
  /\ [][ nframes' = nframes + 1 =>
           LET all == Append(audio_buffer, incoming_audio_bytes')
           IN IF pc' = "transcribe"
              THEN /\ combined_audio' = InOrder(all)
                   /\ turn_log'[turn'].audio = InOrder(all)
                   /\ audio_buffer' = <<>>
              ELSE /\ audio_buffer' = all
                   /\ combined_audio' = combined_audio
       ]_vars
  /\ [][ nframes' = nframes =>
           /\ audio_buffer' = audio_buffer
           /\ combined_audio' = combined_audio
       ]_vars

\* C16 witness: a flush handed over the bytes of two different frames that
\* had been received one after the other.
C16_Witness ==
  /\ pc = "transcribe"
  /\ Len(combined_audio) >= 2
  /\ audio_buffer = <<>>

\* C17 (as amended): a marker that arrives while the total is below
\* min_audio_size discards nothing: the buffer keeps every buffered byte,
\* the handler goes on awaiting frames, and a later flush hands over all
\* buffered bytes.
C17_ShortAudioRetained ==
  /\ [][ (nframes' = nframes + 1 /\ incoming_audio_bytes' = Marker
            /\ SumLen(audio_buffer) < min_audio_size) =>
           /\ pc' = "recv"
           /\ audio_buffer' = Append(audio_buffer, Marker)
           /\ SumLen(audio_buffer') = SumLen(audio_buffer)
       ]_vars
  /\ [][ (pc = "recv" /\ pc' = "transcribe") =>
           ByteLen(combined_audio')
             = SumLen(audio_buffer) + incoming_audio_bytes'.len
       ]_vars

\* C17 witness: a marker arrived on top of buffered audio shorter than
\* min_audio_size, and that audio is still in the buffer.
C17_Witness ==
  /\ pc = "recv"
  /\ incoming_audio_bytes = Marker
  /\ total_buffered > 0
  /\ total_buffered < min_audio_size
  /\ SumLen(audio_buffer) = total_buffered

\* C17 as stated: a marker that arrives while the total is below
\* min_audio_size leaves no audio in the buffer.
C17_Original ==
  [][ (nframes' = nframes + 1 /\ incoming_audio_bytes' = Marker
         /\ SumLen(audio_buffer) < min_audio_size) =>
        SumLen(audio_buffer') = 0
    ]_vars

\* C18: every dispatched turn write, and every committed row, belongs to a
\* turn whose transcript has a non-whitespace character and whose response
\* stream yielded all of its fragments; that turn is neither skipped nor
\* aborted, has at most one write, and the write carries the id of the
\* session row this connection created. A write is dispatched only by the
\* step that follows the completed stream.
C18_RecordOnlyForCompletedTurn ==
  /\ [](\A i \in DOMAIN tasks :
          LET t == tasks[i].turn
          IN /\ t \in DOMAIN turn_log
             /\ Strip(tasks[i].user_transcript) # <<>>
             /\ tasks[i].user_transcript = turn_log[t].transcription
             /\ turn_log[t].yielded \in Streams
             /\ tasks[i].ai_response = Concat(turn_log[t].yielded)
             /\ turn_log[t].outcome = "completed"
             /\ tasks[i].session_id = db_session
             /\ tasks[i].session_id # None
             /\ \E k \in DOMAIN sessions :
                  sessions[k].id = tasks[i].session_id
             /\ \A j \in DOMAIN tasks : tasks[j].turn = t => j = i)
  /\ [](\A r \in DOMAIN conversations :
          \E i \in DOMAIN tasks :
            /\ tasks[i].turn = conversations[r].turn
            /\ tasks[i].state = "committed"
            /\ conversations[r].session_id = tasks[i].session_id
            /\ conversations[r].user_transcript = tasks[i].user_transcript
            /\ conversations[r].ai_response = tasks[i].ai_response)
  /\ [](\A t \in DOMAIN turn_log :
          turn_log[t].outcome \in {"skipped", "aborted"} =>
            /\ \A i \in DOMAIN tasks : tasks[i].turn # t
            /\ \A r \in DOMAIN conversations : conversations[r].turn # t)
  /\ [][ Len(tasks') > Len(tasks) =>
           /\ pc = "send_ai"
           /\ stream = <<>>
           /\ Len(tasks') = Len(tasks) + 1
       ]_vars

\* C18 witness: the first turn was skipped or aborted and has no row; the
\* second turn completed and its row, with the session's id, is committed.
C18_Witness ==
  /\ Len(turn_log) = 2
  /\ turn_log[1].outcome \in {"skipped", "aborted"}
  /\ turn_log[2].outcome = "completed"
  /\ Len(conversations) = 1
  /\ conversations[1].turn = 2
  /\ conversations[1].session_id = SessionId

\* C19 as stated: every committed conversation row has a non-null audio
\* duration.
C19_AudioDurationRecorded ==
  \A r \in DOMAIN conversations : conversations[r].audio_duration # "NULL"

\* C20 (as amended): a failure of init_database raises nothing and startup
\* goes on to create the clients; an exception of any of the four factories
\* stays in flight until app_lifespan is left by raising, and the app never
\* gets to serve; whenever the finally block has run, a close has been
\* attempted on the aiohttp session and on the Groq client if they had been
\* created, a close that raises stops neither the other close nor changes
\* how app_lifespan is left; the model and the agent are never closed.
C20_StartupAndCleanup ==
  /\ [][ lifespan.at = "init_database" =>
           /\ lifespan'.at = "create_aiohttp_session"
           /\ lifespan'.raised = "none"
       ]_vars
  /\ [][ \A st \in CreateStages :
           (lifespan.at = st /\ lifespan'.at # lifespan.at) =>
             \/ lifespan'.raised = "none" /\ lifespan'.at \notin {"except", "exited"}
             \/ lifespan'.raised = st /\ lifespan'.at = "except"
       ]_vars
  /\ [][ lifespan.raised # "none" => lifespan'.raised = lifespan.raised ]_vars
  /\ [](lifespan.raised \in CreateStages =>
          /\ lifespan.at # "yield"
          /\ ~lifespan.app_state
          /\ lifespan.exit # "returned"
          /\ lifespan.at = "exited" => lifespan.exit = "raised")
  /\ [](lifespan.at = "exited" =>
          /\ lifespan.exit = (IF lifespan.raised = "none"
                              THEN "returned" ELSE "raised")
          /\ lifespan.raised # "get_settings" =>
               /\ lifespan.aiohttp_session \in {"None", "closed", "close_failed"}
               /\ lifespan.groq_client \in {"None", "closed", "close_failed"})
  /\ [](/\ lifespan.groq_model \in {"None", "created"}
        /\ lifespan.groq_agent \in {"None", "created"})
  /\ [][ /\ lifespan.aiohttp_session = "open" => lifespan'.aiohttp_session # "None"
         /\ lifespan.groq_client = "open" => lifespan'.groq_client # "None"
         /\ lifespan.groq_model = "created" => lifespan'.groq_model = "created"
       ]_vars

\* C20 witness: the database failed to initialise, both clients and the
\* model were created, creating the agent raised; app_lifespan was left by
\* raising that error with both clients closed.
C20_Witness ==
  /\ lifespan.at = "exited"
  /\ lifespan.db = "failed"
  /\ lifespan.raised = "create_groq_agent"
  /\ lifespan.exit = "raised"
  /\ lifespan.aiohttp_session = "closed"
  /\ lifespan.groq_client = "closed"
  /\ lifespan.groq_model = "created"

\* C20 as stated: once app_lifespan has been left, every client that had
\* been created (aiohttp session, Groq client, model, agent) is closed.
C20_Original ==
  lifespan.at = "exited" =>
    /\ lifespan.aiohttp_session \in {"None", "closed"}
    /\ lifespan.groq_client \in {"None", "closed"}
    /\ lifespan.groq_model \in {"None", "closed"}
    /\ lifespan.groq_agent \in {"None", "closed"}

\* C21: whenever the handler awaits the next frame the buffer holds fewer
\* than max_buffer_size bytes; a frame that takes the total to
\* max_buffer_size or more is flushed within its own handling, which leaves
\* the buffer empty.
C21_BufferBelowMax ==
  /\ [](pc = "recv" => SumLen(audio_buffer) < max_buffer_size)
  /\ [][ (nframes' = nframes + 1
            /\ SumLen(audio_buffer) + incoming_audio_bytes'.len
                 >= max_buffer_size) =>
           /\ pc' = "transcribe"
           /\ audio_buffer' = <<>>
           /\ total_buffered' >= max_buffer_size
       ]_vars

\* C21 witness: a first frame took the total past max_buffer_size and was
\* flushed; the handler awaits frames again with bytes of a later frame
\* buffered.
C21_Witness ==
  /\ pc = "recv"
  /\ turn >= 1
  /\ ByteLen(turn_log[1].audio) >= max_buffer_size
  /\ SumLen(audio_buffer) > 0

\* C22: a non-empty frame that leaves the total below max_buffer_size never
\* flushes, whatever frames were buffered before it, markers included; a
\* marker that finds the total at min_audio_size or more flushes.
C22_MarkerNotRemembered ==
  /\ [][ (nframes' = nframes + 1 /\ incoming_audio_bytes'.len > 0
            /\ SumLen(audio_buffer) + incoming_audio_bytes'.len
                 < max_buffer_size) =>
           /\ pc' = "recv"
           /\ audio_buffer' = Append(audio_buffer, incoming_audio_bytes')
           /\ turn' = turn
       ]_vars
  /\ [][ (nframes' = nframes + 1 /\ incoming_audio_bytes' = Marker
            /\ SumLen(audio_buffer) >= min_audio_size) =>
           pc' = "transcribe"
       ]_vars

\* C22 witness: a marker arrived on an empty buffer, then a frame of at
\* least min_audio_size bytes; nothing was flushed and the handler awaits
\* the next frame with both still buffered.
C22_Witness ==
  /\ pc = "recv"
  /\ turn = 0
  /\ Len(audio_buffer) = 2
  /\ audio_buffer[1] = Marker
  /\ incoming_audio_bytes = audio_buffer[2]
  /\ SumLen(audio_buffer) >= min_audio_size
  /\ SumLen(audio_buffer) < max_buffer_size

\* C23: a turn write is dispatched only while end_session has not been
\* invoked, and none once the handler has reached its finally block; the
\* finally block and the close write proceed whatever writes are pending,
\* and a pending write can still commit in any state, also after the
\* session row has been marked ended and the handler has returned.
C23_WritesBeforeClose ==
  /\ [][ Len(tasks') > Len(tasks) =>
           /\ end_calls = 0
           /\ end_calls' = 0
           /\ pc' \notin {"finally", "end_session", "closed"}
       ]_vars
  /\ [][ (pc \in {"finally", "end_session", "closed"}) =>
           /\ Len(tasks') = Len(tasks)
           /\ pc' \in {"finally", "end_session", "closed"}
       ]_vars
  /\ [](pc = "finally" => ENABLED Finally)
  /\ [](pc = "end_session" => ENABLED EndSessionOk)
  /\ [](\A i \in DOMAIN tasks :
          tasks[i].state = "pending" => ENABLED SaveCommit(i))

\* C23 witness: the handler has returned, the session row is marked ended
\* and a write dispatched during the connection is still pending.
C23_Witness ==
  /\ pc = "closed"
  /\ end_result = "ok"
  /\ \E k \in DOMAIN sessions :
       sessions[k].id = db_session /\ ~sessions[k].is_active
  /\ \E i \in DOMAIN tasks :
       tasks[i].state = "pending" /\ tasks[i].session_id = db_session

\* C24 as stated: once transcribe_audio_data has returned, with text or with
\* the empty text after a failure at any step, the temporary file it
\* created does not exist.
C24_StagingFileReleased ==
  stt.at = "returned" => ~stt.on_disk
====
